---- MODULE Spec2Model ----
(***************************************************************************)
(* Model of langchain_community/graph_vectorstores/links.py:               *)
(* the GraphStoreLink record with its three factories, and the two         *)
(* metadata accessors get_links and add_links.                             *)
(*                                                                         *)
(* Python values are modelled with object identity: a list or tuple lives  *)
(* in `heap` and the metadata mapping holds a reference to it, so that     *)
(* aliasing (get_links returning the stored list itself) and replacement   *)
(* (the converted list overwriting a tuple) are observable.                *)
(***************************************************************************)
EXTENDS Integers, Sequences, FiniteSets, TLC

\* ---- bounds ----
MaxInit == 2
MaxArgs == 2
MaxIter == 2
MaxCalls == 2
MaxPool == 2

\* ---- GraphStoreLink (links.py 7-38) ----
GraphStoreLink(kind, direction, tag) ==
    [kind |-> kind, direction |-> direction, tag |-> tag]

incoming_out(kind, tag) ==
    GraphStoreLink(kind, "out", tag)

incoming(kind, tag) ==
    GraphStoreLink(kind, "in", tag)

outgoing(kind, tag) ==
    GraphStoreLink(kind, "out", tag)

bidir(kind, tag) ==
    GraphStoreLink(kind, "bidir", tag)

\* Literal["in", "out", "bidir"]: the annotation on the direction field.
Directions ==
    {"in", "out", "bidir"}

\* Values a caller may pass as direction: the annotation is not enforced at
\* run time, so a caller can pass any string.
DirectionArgs ==
    Directions \cup {"sideways"}

Kinds ==
    {"kw", "url"}

Tags ==
    {"", "t"}

METADATA_LINKS_KEY ==
    "links"

\* The metadata keys of the modelled document: the reserved key and two
\* keys owned by other components.
Keys ==
    {METADATA_LINKS_KEY, "page", "source"}

\* Links passed to add_links and found in documents.
L1 ==
    outgoing("kw", "t")

L2 ==
    incoming("kw", "t")

Links ==
    {L1, L2}

Threads ==
    {1, 2}

\* ---- Python values held in the metadata mapping and in locals ----
Absent ==
    [t |-> "absent", addr |-> 0]

None ==
    [t |-> "none", addr |-> 0]

\* A non-iterable value such as an int.
Scalar ==
    [t |-> "scalar", addr |-> 0]

Ref(a) ==
    [t |-> "ref", addr |-> a]

VARIABLES
    meta,     \* doc.metadata: key -> value
    heap,     \* the list and tuple objects, by address
    pc,       \* per caller: position inside get_links / add_links
    call,     \* per caller: the call in progress (operation, arguments, entry state)
    links,    \* per caller: the local `links` / `links_in_metadata`
    rest,     \* per caller: the arguments the for loop has not consumed yet
    res,      \* per caller: outcome of its last completed call
    ncalls,   \* number of calls made so far
    passed,   \* per call id: number of links a completed add_links was given
    handles,  \* the lists get_links has returned, in order
    olap,     \* ids of the calls that ran while another call was in progress
    callers,  \* the threads that use the document
    pool      \* the GraphStoreLink values constructed so far

vars ==
    <<meta, heap, pc, call, links, rest, res, ncalls, passed, handles, olap,
      callers, pool>>

docvars ==
    <<meta, heap, pc, call, links, rest, res, ncalls, passed, handles, olap, callers>>

\* ---- helpers over sequences ----
SeqsUpTo(S, n) ==
    UNION {[1..k -> S] : k \in 0..n}

IsPrefix(s, u) ==
    /\ Len(s) <= Len(u)
    /\ SubSeq(u, 1, Len(s)) = s

\* ---- arguments of add_links: Union[GraphStoreLink, Iterable[GraphStoreLink]] ----
Bare(l) ==
    [iter |-> FALSE, val |-> l]

Iter(s) ==
    [iter |-> TRUE, val |-> s]

\* The one-level flattening of an argument tuple, written from the contract:
\* a bare link counts once, an iterable contributes its elements in order.
RECURSIVE ExpectedFlat(_)
ExpectedFlat(args) ==
    IF args = <<>> THEN <<>>
    ELSE (IF Head(args).iter THEN Head(args).val ELSE <<Head(args).val>>)
         \o ExpectedFlat(Tail(args))

\* L1, L2, L1, L2, ...: neighbouring links differ, so a swap, a drop or a
\* merge of equal links changes the sequence.
PatternAt(i) ==
    IF i % 2 = 1 THEN L1 ELSE L2

Pattern(n) ==
    [i \in 1..n |-> PatternAt(i)]

\* The shape of an argument tuple: per argument, -1 for a bare link or the
\* length of the iterable.
ArgShapes ==
    SeqsUpTo((-1)..MaxIter, MaxArgs)

\* Number of links the first n arguments of a shape stand for.
RECURSIVE ShapeSize(_, _)
ShapeSize(sh, n) ==
    IF n = 0 THEN 0
    ELSE ShapeSize(sh, n - 1) + (IF sh[n] = -1 THEN 1 ELSE sh[n])

\* The argument tuple of a given shape whose links read L1, L2, L1, ...
ArgsOfShape(sh) ==
    [i \in 1..Len(sh) |->
        IF sh[i] = -1
        THEN Bare(PatternAt(ShapeSize(sh, i - 1) + 1))
        ELSE Iter([j \in 1..sh[i] |-> PatternAt(ShapeSize(sh, i - 1) + j)])]

\* The argument tuples callers pass: every way of splitting L1, L2, L1, ...
\* into at most MaxArgs bare links and iterables (empty iterables included).
ArgTuples ==
    {ArgsOfShape(sh) : sh \in ArgShapes}

\* The argument tuples of the two unsynchronised callers: an empty call, a
\* single link, two bare links, and one iterable of two links.
RaceArgTuples ==
    {<<>>, <<Bare(L1)>>, <<Bare(L1), Bare(L2)>>, <<Iter(<<L1, L2>>)>>}

\* isinstance(link, Iterable): a GraphStoreLink defines no __iter__.
IsIterable(link) ==
    link.iter

\* ---- heap objects: Python list and tuple values ----
\* `by` is a ghost field: for each element, the id of the add_links call
\* that appended it (0 for elements present initially).
Obj(kind, elems, by) ==
    [kind |-> kind, elems |-> elems, by |-> by]

NewList ==
    Obj("list", <<>>, <<>>)

\* What list(x) yields when x is not iterable.
TypeError ==
    Obj("TypeError", <<>>, <<>>)

\* isinstance(links, Sequence): a tuple passes too.
IsList_sequence(h, v) ==
    v.t = "ref"

\* isinstance(links, list)
IsList(h, v) ==
    /\ v.t = "ref"
    /\ h[v.addr].kind = "list"

\* reversed order, as a round trip through an unordered collection may give.
ListOf_reversed(h, v) ==
    IF v.t = "ref"
    THEN Obj("list", [i \in 1..Len(h[v.addr].elems) |->
                        h[v.addr].elems[Len(h[v.addr].elems) + 1 - i]],
                     h[v.addr].by)
    ELSE TypeError

\* a non-iterable value is taken as "no links".
ListOf_lenient(h, v) ==
    IF v.t = "ref" THEN Obj("list", h[v.addr].elems, h[v.addr].by) ELSE NewList

\* list(links): a new list with the same elements in the same order, or
\* TypeError when the value is not iterable.
ListOf(h, v) ==
    IF v.t = "ref" THEN Obj("list", h[v.addr].elems, h[v.addr].by) ELSE TypeError

\* list.insert(0, x)
ListAppend_front(o, x, id) ==
    Obj(o.kind, <<x>> \o o.elems, <<id>> \o o.by)

\* list.append(x)
ListAppend(o, x, id) ==
    Obj(o.kind, Append(o.elems, x), Append(o.by, id))

\* extend that skips links the list already holds.
ListExtend_dedup(o, xs, id) ==
    LET new == SelectSeq(xs, LAMBDA x : \A i \in 1..Len(o.elems) : o.elems[i] # x)
    IN Obj(o.kind, o.elems \o new, o.by \o [i \in 1..Len(new) |-> id])

\* list.extend(xs)
ListExtend(o, xs, id) ==
    Obj(o.kind, o.elems \o xs, o.by \o [i \in 1..Len(xs) |-> id])

\* m[k] = v whether or not k is present.
SetDefault_overwrite(m, k, v) ==
    [m EXCEPT ![k] = v]

\* dict.get(k, v): never stores.
SetDefault_get(m, k, v) ==
    m

\* dict.setdefault(k, v): stores v only when k is missing.
SetDefault(m, k, v) ==
    IF m[k] = Absent THEN [m EXCEPT ![k] = v] ELSE m

\* the converted list is not remembered.
SetItem_skip(m, k, v) ==
    m

\* the mapping is rebuilt with the one key.
SetItem_only(m, k, v) ==
    [x \in DOMAIN m |-> IF x = k THEN v ELSE Absent]

\* m[k] = v
SetItem(m, k, v) ==
    [m EXCEPT ![k] = v]

\* The stored value under "links", as a caller reading the mapping sees it.
Stored ==
    meta[METADATA_LINKS_KEY]

\* The elements stored under "links" (none when the entry is not a sequence).
Content ==
    IF Stored.t = "ref" THEN heap[Stored.addr].elems ELSE <<>>

\* Ghost: which call appended each element of Content.
ContentBy ==
    IF Stored.t = "ref" THEN heap[Stored.addr].by ELSE <<>>

\* "absent", "scalar", "list" or "tuple".
Shape ==
    IF Stored.t = "ref" THEN heap[Stored.addr].kind ELSE Stored.t

NoCall ==
    [op |-> "none", id |-> 0, args |-> <<>>, shape |-> "absent", before |-> <<>>]

NoRes ==
    [op |-> "none", id |-> 0, args |-> <<>>, shape |-> "absent", before |-> <<>>,
     status |-> "none", ret |-> None]

\* ---- initial states ----
\* The links a document carries before the first call.
InitContents ==
    {Pattern(n) : n \in 0..MaxInit}

\* The document as handed to the accessors: "links" is missing, or holds a
\* list, a tuple, or a non-iterable value; "page" is present, "source" is not.
InitDoc ==
    \E shape \in {"absent", "scalar", "list", "tuple"}, s \in InitContents :
        /\ shape \in {"absent", "scalar"} => s = <<>>
        /\ heap = IF shape \in {"list", "tuple"}
                  THEN <<Obj(shape, s, [i \in 1..Len(s) |-> 0])>> ELSE <<>>
        /\ meta = [k \in Keys |->
                     IF k = METADATA_LINKS_KEY
                     THEN (CASE shape = "absent" -> Absent
                             [] shape = "scalar" -> Scalar
                             [] OTHER -> Ref(1))
                     ELSE IF k = "page" THEN Scalar ELSE Absent]

InitCalls ==
    /\ pc = [t \in Threads |-> "idle"]
    /\ call = [t \in Threads |-> NoCall]
    /\ links = [t \in Threads |-> None]
    /\ rest = [t \in Threads |-> <<>>]
    /\ res = [t \in Threads |-> NoRes]
    /\ ncalls = 0
    /\ passed = <<>>
    /\ handles = <<>>
    /\ olap = {}

\* Single writer: one caller uses the document.
Init ==
    /\ InitDoc
    /\ InitCalls
    /\ callers = {1}
    /\ pool = {}

\* Two callers share the document without synchronisation.
InitConc ==
    /\ InitDoc
    /\ InitCalls
    /\ callers = Threads
    /\ pool = {}

\* ---- get_links / add_links, one action per interpreter-atomic step ----
\* A call is a sequence of steps, each a single operation on the shared
\* mapping or on a shared list: dict.setdefault, list(x), the item
\* assignment, and one list.append or list.extend per argument.  Each of
\* these is one C-level call on a built-in object, which the interpreter
\* runs without switching threads; between two of them another caller may
\* run.
Busy ==
    {u \in Threads : pc[u] # "idle"}

\* The record of a completed call.
Outcome(t, status, ret) ==
    [op |-> call[t].op, id |-> call[t].id, args |-> call[t].args,
     shape |-> call[t].shape, before |-> call[t].before,
     status |-> status, ret |-> ret]

\* A caller invokes get_links(doc) or add_links(doc, *args).
Invoke(t, op, args) ==
    /\ t \in callers
    /\ pc[t] = "idle"
    /\ ncalls < MaxCalls
    /\ ncalls' = ncalls + 1
    /\ passed' = Append(passed, 0)
    /\ call' = [call EXCEPT ![t] = [op |-> op, id |-> ncalls + 1, args |-> args,
                                    shape |-> Shape, before |-> Content]]
    /\ rest' = [rest EXCEPT ![t] = args]
    /\ olap' = IF Busy = {} THEN olap
               ELSE olap \cup {ncalls + 1} \cup {call[u].id : u \in Busy}
    /\ pc' = [pc EXCEPT ![t] = "setdefault"]
    /\ UNCHANGED <<meta, heap, links, res, handles, callers, pool>>

CallGetLinks(t) ==
    Invoke(t, "get", <<>>)

\* What callers pass: any argument tuple when the document has one writer;
\* the racing callers draw from the smaller set.
Inputs ==
    IF callers = Threads THEN RaceArgTuples ELSE ArgTuples

CallAddLinks(t) ==
    \E args \in Inputs : Invoke(t, "add", args)

\* line 53-54: links = doc.metadata.setdefault("links", []); isinstance test.
\* The fresh [] is only observable when it is stored, so it is allocated then.
StepSetDefault(t) ==
    /\ pc[t] = "setdefault"
    /\ LET fresh == Ref(Len(heap) + 1)
           m2 == SetDefault(meta, METADATA_LINKS_KEY, fresh)
           h2 == IF m2[METADATA_LINKS_KEY] = fresh THEN Append(heap, NewList) ELSE heap
       IN /\ meta' = m2
          /\ heap' = h2
          /\ links' = [links EXCEPT ![t] = m2[METADATA_LINKS_KEY]]
          /\ pc' = [pc EXCEPT ![t] = IF IsList(h2, m2[METADATA_LINKS_KEY])
                                     THEN "return" ELSE "convert"]
    /\ UNCHANGED <<call, rest, res, ncalls, passed, handles, olap, callers, pool>>

\* line 56: links = list(links); the TypeError of a non-iterable value
\* propagates out of get_links (and out of add_links, line 70).
StepConvert(t) ==
    /\ pc[t] = "convert"
    /\ LET new == ListOf(heap, links[t])
       IN IF new = TypeError
          THEN /\ res' = [res EXCEPT ![t] = Outcome(t, "TypeError", None)]
               /\ call' = [call EXCEPT ![t] = NoCall]
               /\ rest' = [rest EXCEPT ![t] = <<>>]
               /\ links' = [links EXCEPT ![t] = None]
               /\ pc' = [pc EXCEPT ![t] = "idle"]
               /\ UNCHANGED heap
          ELSE /\ heap' = Append(heap, new)
               /\ links' = [links EXCEPT ![t] = Ref(Len(heap) + 1)]
               /\ pc' = [pc EXCEPT ![t] = "store"]
               /\ UNCHANGED <<res, call, rest>>
    /\ UNCHANGED <<meta, ncalls, passed, handles, olap, callers, pool>>

\* line 57: doc.metadata["links"] = links
StepStore(t) ==
    /\ pc[t] = "store"
    /\ meta' = SetItem(meta, METADATA_LINKS_KEY, links[t])
    /\ pc' = [pc EXCEPT ![t] = "return"]
    /\ UNCHANGED <<heap, call, links, rest, res, ncalls, passed, handles, olap, callers, pool>>

\* line 58: return links, to the caller of get_links or to add_links (line 70).
StepReturn(t) ==
    /\ pc[t] = "return"
    /\ IF call[t].op = "get"
       THEN /\ res' = [res EXCEPT ![t] = Outcome(t, "ok", links[t])]
            /\ handles' = Append(handles, [ref |-> links[t], id |-> call[t].id])
            /\ call' = [call EXCEPT ![t] = NoCall]
            /\ links' = [links EXCEPT ![t] = None]
            /\ pc' = [pc EXCEPT ![t] = "idle"]
       ELSE /\ pc' = [pc EXCEPT ![t] = "loop"]
            /\ UNCHANGED <<res, handles, call, links>>
    /\ UNCHANGED <<meta, heap, rest, ncalls, passed, olap, callers, pool>>

\* lines 71-75: one iteration of the loop over *links.
StepLoop(t) ==
    /\ pc[t] = "loop"
    /\ rest[t] # <<>>
    /\ LET link == Head(rest[t])
           a == links[t].addr
       IN heap' = [heap EXCEPT ![a] =
                     IF IsIterable(link)
                     THEN ListExtend(@, link.val, call[t].id)
                     ELSE ListAppend(@, link.val, call[t].id)]
    /\ rest' = [rest EXCEPT ![t] = Tail(rest[t])]
    /\ UNCHANGED <<meta, pc, call, links, res, ncalls, passed, handles, olap, callers, pool>>

\* line 71, loop exhausted: add_links returns None.
StepFinish(t) ==
    /\ pc[t] = "loop"
    /\ rest[t] = <<>>
    /\ res' = [res EXCEPT ![t] = Outcome(t, "ok", None)]
    /\ passed' = [passed EXCEPT ![call[t].id] = Len(ExpectedFlat(call[t].args))]
    /\ call' = [call EXCEPT ![t] = NoCall]
    /\ links' = [links EXCEPT ![t] = None]
    /\ pc' = [pc EXCEPT ![t] = "idle"]
    /\ UNCHANGED <<meta, heap, rest, ncalls, handles, olap, callers, pool>>

Next ==
    \E t \in Threads :
        \/ CallGetLinks(t)
        \/ CallAddLinks(t)
        \/ StepSetDefault(t)
        \/ StepConvert(t)
        \/ StepStore(t)
        \/ StepReturn(t)
        \/ StepLoop(t)
        \/ StepFinish(t)

Spec ==
    Init /\ [][Next]_vars

SpecConc ==
    InitConc /\ [][Next]_vars

\* ---- constructing GraphStoreLink values ----
Made(via, kind, direction, tag, link) ==
    [via |-> via, kind |-> kind, direction |-> direction, tag |-> tag, link |-> link]

\* GraphStoreLink(kind=..., direction=..., tag=...): the dataclass-generated
\* __init__ assigns the three fields and checks nothing.
Construct(kind, direction, tag) ==
    /\ Cardinality(pool) < MaxPool
    /\ pool' = pool \cup {Made("GraphStoreLink", kind, direction, tag,
                               GraphStoreLink(kind, direction, tag))}
    /\ UNCHANGED docvars

ConstructIncoming(kind, tag) ==
    /\ Cardinality(pool) < MaxPool
    /\ pool' = pool \cup {Made("incoming", kind, "in", tag, incoming(kind, tag))}
    /\ UNCHANGED docvars

ConstructOutgoing(kind, tag) ==
    /\ Cardinality(pool) < MaxPool
    /\ pool' = pool \cup {Made("outgoing", kind, "out", tag, outgoing(kind, tag))}
    /\ UNCHANGED docvars

ConstructBidir(kind, tag) ==
    /\ Cardinality(pool) < MaxPool
    /\ pool' = pool \cup {Made("bidir", kind, "bidir", tag, bidir(kind, tag))}
    /\ UNCHANGED docvars

NextLink ==
    \E kind \in Kinds, tag \in Tags :
        \/ \E direction \in DirectionArgs : Construct(kind, direction, tag)
        \/ ConstructIncoming(kind, tag)
        \/ ConstructOutgoing(kind, tag)
        \/ ConstructBidir(kind, tag)

SpecLink ==
    Init /\ [][NextLink]_vars

\* ---- properties ----
\* The last completed call of caller t, when no call has started since.
Latest(t) ==
    /\ res[t].status # "none"
    /\ res[t].id = ncalls
    /\ pc[t] = "idle"

\* Number of elements of the stored list that call c appended.
Count(c) ==
    Cardinality({i \in 1..Len(ContentBy) : ContentBy[i] = c})

\* C1: add_links(doc, a1..an) on a document whose "links" entry is absent or
\* a list S leaves the entry equal to S followed by the one-level flattening
\* of a1..an, in order, nothing dropped, reordered or de-duplicated.
C1_AddLinksFlattens ==
    \A t \in Threads :
        (Latest(t) /\ res[t].op = "add" /\ res[t].shape \in {"absent", "list"})
        => /\ res[t].status = "ok"
           /\ IsList(heap, Stored)
           /\ Content = res[t].before \o ExpectedFlat(res[t].args)

C1_Witness ==
    \E t \in Threads :
        /\ Latest(t) /\ res[t].op = "add" /\ res[t].status = "ok"
        /\ res[t].shape = "list"
        /\ res[t].before = <<L1, L2>>
        /\ res[t].args = <<Bare(L1), Iter(<<L2, L1>>)>>
        /\ Content = <<L1, L2, L1, L2, L1>>

\* C2: with a single caller the link sequence only grows at its tail: its
\* value before any step is a prefix of its value after.
C2_OnlyGrowsAtTail ==
    [][IsPrefix(Content, Content')]_vars

C2_Witness ==
    /\ \A t \in Threads : pc[t] = "idle"
    /\ \E i, j, k \in 1..Len(ContentBy) :
        /\ i < j /\ j < k
        /\ ContentBy[i] = 0 /\ ContentBy[j] = 1 /\ ContentBy[k] = 2

\* C3: every list get_links has returned is the object stored under "links",
\* so successive calls return the same list and later appends show through
\* an earlier handle.
C3_GetLinksAliases ==
    \A i \in 1..Len(handles) :
        /\ handles[i].ref = Stored
        /\ IsList(heap, handles[i].ref)

C3_Witness ==
    /\ Len(handles) = 1
    /\ handles[1].id = 1
    /\ heap[1].kind = "tuple"
    /\ \E t \in Threads :
        /\ Latest(t) /\ res[t].op = "add" /\ res[t].status = "ok" /\ res[t].id = 2
        /\ heap[handles[1].ref.addr].elems = res[t].before \o <<L1, L2>>

\* C4: get_links on a document without a "links" key returns an empty list
\* and leaves the key mapped to that list.
C4_GetLinksCreatesKey ==
    \A t \in Threads :
        (Latest(t) /\ res[t].op = "get" /\ res[t].shape = "absent")
        => /\ res[t].status = "ok"
           /\ res[t].ret = Stored
           /\ IsList(heap, res[t].ret)
           /\ heap[res[t].ret.addr].elems = <<>>

C4_Witness ==
    \E t \in Threads :
        /\ Latest(t) /\ res[t].op = "get" /\ res[t].shape = "absent"
        /\ res[t].status = "ok"
        /\ Stored = Ref(1)

\* C5: when "links" holds a tuple, get_links returns a list with the same
\* elements in the same order, and that list replaces the tuple in the
\* metadata.
C5_TupleConverted ==
    \A t \in Threads :
        (Latest(t) /\ res[t].op = "get" /\ res[t].shape = "tuple")
        => /\ res[t].status = "ok"
           /\ IsList(heap, res[t].ret)
           /\ heap[res[t].ret.addr].elems = res[t].before
           /\ Stored = res[t].ret
           /\ Stored # Ref(1)

C5_Witness ==
    \E t \in Threads :
        /\ Latest(t) /\ res[t].op = "get" /\ res[t].shape = "tuple"
        /\ res[t].before = <<L1, L2>>
        /\ heap[1] = Obj("tuple", <<L1, L2>>, <<0, 0>>)
        /\ Content = <<L1, L2>>

\* C6 (as claimed): no GraphStoreLink with a direction outside in/out/bidir
\* can exist: constructing one fails.
C6_OnlyValidDirections ==
    \A m \in pool : m.link.direction \in Directions

\* C6 (amended): construction never fails and keeps the three fields as
\* given, whatever the direction string; the factories incoming, outgoing
\* and bidir yield the directions in, out and bidir.
C6_ConstructionKeepsFields ==
    \A m \in pool :
        /\ m.link = [kind |-> m.kind, direction |-> m.direction, tag |-> m.tag]
        /\ m.via = "incoming" => m.link.direction = "in"
        /\ m.via = "outgoing" => m.link.direction = "out"
        /\ m.via = "bidir" => m.link.direction = "bidir"

C6_Witness ==
    /\ \E m \in pool : m.via = "GraphStoreLink" /\ m.link.direction = "sideways"
    /\ \E m \in pool : m.via = "incoming" /\ m.link.direction = "in"

\* C7: when "links" holds a non-iterable value, get_links fails with a
\* TypeError at the conversion, and add_links fails before appending
\* anything: the entry and the heap stay as they were.
C7_ScalarRaisesTypeError ==
    \A t \in Threads :
        /\ call[t].shape = "scalar" => pc[t] \in {"idle", "setdefault", "convert"}
        /\ (res[t].status # "none" /\ res[t].shape = "scalar")
           => /\ res[t].status = "TypeError"
              /\ Stored = Scalar
              /\ heap = <<>>

C7_Witness ==
    \E t \in Threads :
        /\ Latest(t) /\ res[t].op = "add" /\ res[t].status = "TypeError"
        /\ res[t].args = <<Bare(L1), Iter(<<L2, L1>>)>>

\* A link passed by completed call c is missing from the stored sequence.
Lost(c) ==
    Count(c) < passed[c]

\* The elements call c appended are not contiguous in the stored sequence.
Interleaved(c) ==
    \E i, j, k \in 1..Len(ContentBy) :
        /\ i < j /\ j < k
        /\ ContentBy[i] = c /\ ContentBy[j] # c /\ ContentBy[k] = c

\* C8: a lost update or an interleaving of one call's links with another's
\* happens only to calls that overlapped another call; such states are
\* reachable when two callers share the document.
C8_RaceNeedsOverlap ==
    \A c \in 1..ncalls : (Lost(c) \/ Interleaved(c)) => c \in olap

C8_Witness ==
    /\ \A t \in Threads : pc[t] = "idle"
    /\ \E c \in 1..ncalls : Lost(c) /\ c \in olap

\* C9: no step of get_links or add_links changes a metadata key other than
\* "links".
C9_OtherKeysUntouched ==
    [][\A k \in Keys \ {METADATA_LINKS_KEY} : meta'[k] = meta[k]]_vars

C9_Witness ==
    \E t \in Threads :
        /\ Latest(t) /\ res[t].op = "add" /\ res[t].status = "ok"
        /\ res[t].shape = "tuple" /\ res[t].ret = None
        /\ Len(Content) > Len(res[t].before)
        /\ meta["page"] = Scalar /\ meta["source"] = Absent

\* C10: once a call to get_links or add_links has completed successfully,
\* "links" is present and holds a list, also while later calls run.
C10_LinksIsList ==
    (\E t \in Threads : res[t].status = "ok") => Shape = "list"

C10_Witness ==
    \E t \in Threads :
        /\ res[t].op = "add" /\ res[t].status = "ok" /\ res[t].args = <<>>
        /\ res[t].shape = "tuple"
        /\ pc[t] # "idle"

TypeOK ==
    /\ \A t \in Threads : pc[t] \in {"idle", "setdefault", "convert", "store", "return", "loop"}
    /\ ncalls \in 0..MaxCalls

====
